---------------------------- MODULE Spec2Model ----------------------------
(***************************************************************************)
(* The account store of Backend/accounts: the CustomUser table and the     *)
(* operations of CustomUserManager (create_user, create_superuser) and of  *)
(* a loaded CustomUser (field assignment + save, set_password + save,      *)
(* delete), with the framework behaviour they call into (normalize_email,  *)
(* the password hasher, the unique index on email, the authentication      *)
(* backends).                                                              *)
(*                                                                         *)
(* Strings are sequences of one-character strings, so that normalization   *)
(* and hashing are computed and not assumed.                               *)
(***************************************************************************)
EXTENDS Integers, Sequences, FiniteSets, TLC

VARIABLES
    users,      \* the CustomUser table: primary key -> row
    nextId,     \* the next value of the auto-increment primary key
    result,     \* what the last call of the manager returned or raised
    group_permissions,  \* the permissions of each auth.Group
    now,        \* the clock read by get_utc_now and timezone.now
    calls,      \* the create_user calls that run concurrently
    response,   \* what the last request to health/ was answered with
    environ,    \* os.environ of the process
    settings,   \* the settings the process has loaded
    form        \* the last form submitted: its errors, the account it saved

vars == <<users, nextId, result, group_permissions, now, calls,
          response, environ, settings, form>>

(***************************************************************************)
(* Bounds                                                                  *)
(***************************************************************************)
\* Number of primary keys the table hands out in a run.
MaxAccounts == 2

\* Number of primary keys handed out in a run of the permission flows.
MaxPermAccounts == 1

\* Last reading of the clock in a run; the first is 1.
MaxClock == 2

\* Number of create_user calls that run concurrently.
MaxCalls == 2

(***************************************************************************)
(* Values                                                                  *)
(***************************************************************************)
\* Python's None where a string is expected: a sequence no string equals
\* (no string holds the element "None").
None == <<"None">>

\* Email arguments of the manager's calls: None, "", "U@X", "U@x", "u@x",
\* and " u@X" (leading blank).
EmailInputs ==
    { None, <<>>,
      <<"U", "@", "X">>, <<"U", "@", "x">>, <<"u", "@", "x">>,
      <<" ", "u", "@", "X">> }

\* Values assigned to user.email before a direct save().
AssignedEmails == { <<"U", "@", "X">>, <<"u", "@", "x">> }

\* Raw passwords: None (no password), "p", "q".
PasswordInputs == { None, <<"p">>, <<"q">> }

FlagNames == {"is_active", "is_staff", "is_superuser"}

\* **extra_fields of the manager's calls: any assignment to is_staff and
\* is_superuser, or is_active alone.
ExtraInputs ==
    UNION { [S -> BOOLEAN] : S \in SUBSET {"is_staff", "is_superuser"} }
    \cup [{"is_active"} -> BOOLEAN]

Ids == 1..MaxAccounts

\* The auth.Permission rows that can be granted: "c" and "d".
Permissions == {"c", "d"}

\* The capabilities has_perm is asked for: the permissions, and "x", a name
\* no Permission row has ("anything.random").
Capabilities == Permissions \cup {"x"}

\* The auth.Group rows.
Groups == {"g"}

(***************************************************************************)
(* django.contrib.auth.base_user.BaseUserManager.normalize_email, called   *)
(* at models.py:26                                                         *)
(***************************************************************************)
\* str.lower() on the letters of the model's alphabet.
Lower(c) == CASE c = "U" -> "u" [] c = "X" -> "x" [] OTHER -> c

\* str.strip(): leading and trailing blanks removed.
RECURSIVE LStrip(_)
LStrip(s) == IF s # <<>> /\ Head(s) = " " THEN LStrip(Tail(s)) ELSE s

RECURSIVE RStrip(_)
RStrip(s) ==
    IF s # <<>> /\ s[Len(s)] = " " THEN RStrip(SubSeq(s, 1, Len(s) - 1)) ELSE s

Strip(s) == RStrip(LStrip(s))

\* Index of the last "@" of s, 0 when there is none (rsplit("@", 1)).
LastAt(s) ==
    LET at == {i \in 1..Len(s) : s[i] = "@"}
    IN  IF at = {} THEN 0 ELSE CHOOSE i \in at : \A j \in at : j <= i

\* normalize_email with the whole address lower-cased.
normalize_email_LowerAll(email) ==
    LET e == IF email = None THEN <<>> ELSE email
        s == Strip(e)
    IN  IF LastAt(s) = 0 THEN e ELSE [i \in 1..Len(s) |-> Lower(s[i])]

\* normalize_email that returns the address as it came.
normalize_email_Identity(email) == IF email = None THEN <<>> ELSE email

\* email = email or ""; the stripped email split at its last "@", the domain
\* part lower-cased; an email without "@" is returned as it came.
normalize_email(email) ==
    LET e == IF email = None THEN <<>> ELSE email
        s == Strip(e)
        k == LastAt(s)
    IN  IF k = 0
        THEN e
        ELSE SubSeq(s, 1, k) \o [i \in 1..(Len(s) - k) |-> Lower(s[k + i])]

(***************************************************************************)
(* Password hashing: AbstractBaseUser.set_password / check_password /      *)
(* has_usable_password, called at models.py:28                             *)
(***************************************************************************)
\* The encoded form of an unusable password ("!" + random characters).
UnusablePassword == <<"!">>

\* make_password that stores the raw password.
make_password_Plain(raw) == IF raw = None THEN UnusablePassword ELSE raw

\* make_password that hashes None as the empty string (`raw or ""`).
make_password_NoneAsEmpty(raw) ==
    <<"md5", "$">> \o (IF raw = None THEN <<>> ELSE raw)

\* make_password(raw): None gives an unusable password, a string gives
\* "<algorithm>$<digest of raw>"; the digest is modelled as injective.
make_password(raw) ==
    IF raw = None THEN UnusablePassword ELSE <<"md5", "$">> \o raw

is_password_usable(encoded) == encoded = <<>> \/ Head(encoded) # "!"

\* A verify that accepts any raw password for a stored digest.
verify_AnyRaw(raw, encoded) ==
    /\ Len(encoded) >= 2
    /\ encoded[1] = "md5" /\ encoded[2] = "$"

\* The hasher's verify(raw, encoded): the digest of raw is the stored digest.
verify(raw, encoded) ==
    /\ Len(encoded) >= 2
    /\ encoded[1] = "md5" /\ encoded[2] = "$"
    /\ SubSeq(encoded, 3, Len(encoded)) = raw

check_password(raw, encoded) ==
    /\ raw # None
    /\ is_password_usable(encoded)
    /\ verify(raw, encoded)

has_usable_password(user) == is_password_usable(user.password)

(***************************************************************************)
(* CustomUser (models.py:44-57)                                            *)
(***************************************************************************)
\* Field defaults with is_staff True.
FieldDefaults_StaffTrue ==
    [is_active |-> TRUE, is_staff |-> TRUE, is_superuser |-> FALSE]

\* Field defaults of a new instance: is_active True, is_staff False
\* (models.py:49-50), is_superuser False (PermissionsMixin).
FieldDefaults ==
    [is_active |-> TRUE, is_staff |-> FALSE, is_superuser |-> FALSE]

\* get_utc_now() (models.py:13-14): the clock's reading.
get_utc_now == now

\* last_login of an account that has not logged in (None): a value the
\* clock never shows.
Never == 0

\* self.model(email=email, **extra_fields): the keyword arguments replace
\* the field defaults, date_joined's default is called here; the password
\* is not set yet.
NewInstance(email, extra) ==
    [ email        |-> email,
      password     |-> <<>>,
      is_active    |-> IF "is_active" \in DOMAIN extra
                       THEN extra["is_active"] ELSE FieldDefaults.is_active,
      is_staff     |-> IF "is_staff" \in DOMAIN extra
                       THEN extra["is_staff"] ELSE FieldDefaults.is_staff,
      is_superuser |-> IF "is_superuser" \in DOMAIN extra
                       THEN extra["is_superuser"] ELSE FieldDefaults.is_superuser,
      user_permissions |-> {},
      groups       |-> {},
      first_name   |-> None,
      last_name    |-> None,
      date_joined  |-> get_utc_now,
      last_login   |-> Never ]

\* A set_password that only sets the first password of an instance.
set_password_Once(user, raw) ==
    IF user.password # <<>> THEN user
    ELSE [user EXCEPT !.password = make_password(raw)]

\* AbstractBaseUser.set_password
set_password(user, raw) == [user EXCEPT !.password = make_password(raw)]

\* The email column without its unique index.
UniqueViolation_NoIndex(table, pk, email) == FALSE

\* A unique index that compares the emails without regard to case.
UniqueViolation_AnyCase(table, pk, email) ==
    \E k \in DOMAIN table :
        /\ k # pk
        /\ Len(table[k].email) = Len(email)
        /\ \A i \in 1..Len(email) : Lower(table[k].email[i]) = Lower(email[i])

\* email = models.EmailField(unique=True): the unique index compares the
\* stored strings exactly. The row `pk` itself is not a conflict.
UniqueViolation(table, pk, email) ==
    \E k \in DOMAIN table : k # pk /\ table[k].email = email

\* The table with row pk written (an insert when pk is new).
WriteRow(table, pk, row) ==
    [k \in (DOMAIN table) \cup {pk} |-> IF k = pk THEN row ELSE table[k]]

\* CustomUser.objects.filter(email=email): exact match.
ByEmail(table, email) == {k \in DOMAIN table : table[k].email = email}

(***************************************************************************)
(* Outcomes                                                                *)
(***************************************************************************)
Ok(op, steps, ret) ==
    [op |-> op, raised |-> "", msg |-> "", steps |-> steps, ret |-> ret]

Raised(op, steps, exc, msg) ==
    [op |-> op, raised |-> exc, msg |-> msg, steps |-> steps, ret |-> 0]

\* The error of models.py:25 with another class and wording.
EmailRequired_Validation ==
    [exc |-> "ValidationError", msg |-> "the email field must be set."]

\* models.py:25
EmailRequired == [exc |-> "ValueError", msg |-> "The Email field must be set"]

\* What the database raises on a unique-index conflict.
IntegrityError == [exc |-> "IntegrityError", msg |-> "UNIQUE constraint failed"]

(***************************************************************************)
(* CustomUserManager (models.py:17-41)                                     *)
(***************************************************************************)
\* `if email is None` in place of `if not email`.
Falsy_NoneOnly(email) == email = None

\* `if not email`: None and "" are falsy.
Falsy(email) == email = None \/ email = <<>>

\* user.save() of a new instance: an INSERT under the unique index.
\* Gives the table, the key counter and the outcome.
save_new(op, table, nid, user) ==
    LET steps == <<"normalize_email", "set_password", "save">>
    IN  IF UniqueViolation(table, nid, user.email)
        THEN [users  |-> table, nextId |-> nid,
              result |-> Raised(op, steps, IntegrityError.exc, IntegrityError.msg)]
        ELSE [users  |-> WriteRow(table, nid, user), nextId |-> nid + 1,
              result |-> Ok(op, steps, nid)]

\* create_user (models.py:18-30), as a function of the table and the key
\* counter.
create_user(op, table, nid, email, password, extra) ==
    IF Falsy(email)
    THEN [users  |-> table, nextId |-> nid,
          result |-> Raised(op, <<>>, EmailRequired.exc, EmailRequired.msg)]
    ELSE save_new(op, table, nid,
                  set_password(NewInstance(normalize_email(email), extra),
                               password))

\* d[key] = value in place of d.setdefault(key, value).
setdefault_Overwrite(d, key, value) ==
    [k \in (DOMAIN d) \cup {key} |-> IF k = key THEN value ELSE d[k]]

\* dict.setdefault(key, value)
setdefault(d, key, value) ==
    IF key \in DOMAIN d THEN d
    ELSE [k \in (DOMAIN d) \cup {key} |-> IF k = key THEN value ELSE d[k]]

\* create_superuser (models.py:32-41)
create_superuser(op, table, nid, email, password, extra) ==
    create_user(op, table, nid, email, password,
                setdefault(setdefault(extra, "is_staff", TRUE),
                           "is_superuser", TRUE))

(***************************************************************************)
(* A loaded CustomUser: assignment to a field followed by save(),          *)
(* set_password() followed by save(), delete()                             *)
(***************************************************************************)
\* A save() that hashes the password field again.
save_Rehash(table, pk, row) ==
    IF UniqueViolation(table, pk, row.email) THEN table
    ELSE WriteRow(table, pk, [row EXCEPT !.password = make_password(@)])

\* A save() that stamps date_joined like an auto_now field.
save_AutoNow(table, pk, row) ==
    IF UniqueViolation(table, pk, row.email) THEN table
    ELSE WriteRow(table, pk, [row EXCEPT !.date_joined = get_utc_now])

\* user.save() of a loaded instance: an UPDATE of row pk under the unique
\* index. The model overrides neither save() nor clean(), so the fields are
\* written as assigned. A save the index refuses raises and writes nothing;
\* save() returns nothing. Gives the table.
save(table, pk, row) ==
    IF UniqueViolation(table, pk, row.email) THEN table
    ELSE WriteRow(table, pk, row)

\* Every flag assignment lands on is_staff.
AssignFlag_Staff(user, flag, value) == [user EXCEPT !.is_staff = value]

\* user.<flag> = value
AssignFlag(user, flag, value) ==
    CASE flag = "is_active"    -> [user EXCEPT !.is_active = value]
      [] flag = "is_staff"     -> [user EXCEPT !.is_staff = value]
      [] flag = "is_superuser" -> [user EXCEPT !.is_superuser = value]

\* A soft delete: the row stays, marked inactive.
delete_Soft(table, pk) == [table EXCEPT ![pk].is_active = FALSE]

\* user.delete(): the row is removed (a hard delete).
delete(table, pk) == [k \in (DOMAIN table) \ {pk} |-> table[k]]

(***************************************************************************)
(* django.contrib.auth.authenticate with the configured backends           *)
(* (ModelBackend, then allauth's AuthenticationBackend)                    *)
(***************************************************************************)
\* A backend that lets inactive users in (AllowAllUsersModelBackend).
user_can_authenticate_Always(user) == TRUE

\* ModelBackend.user_can_authenticate
user_can_authenticate(user) == user.is_active

\* str.lower() of a whole string (allauth looks an address up lower-cased).
LowerAll(s) == [i \in 1..Len(s) |-> Lower(s[i])]

\* ModelBackend.authenticate: the row whose email is exactly the one given
\* (get_by_natural_key), if the password verifies and the user is active.
\* Gives the set of primary keys returned (empty: None).
ModelBackend(table, email, password) ==
    IF email = None \/ password = None THEN {}
    ELSE {k \in ByEmail(table, email) :
             /\ check_password(password, table[k].password)
             /\ user_can_authenticate(table[k])}

\* allauth's AuthenticationBackend with ACCOUNT_LOGIN_METHODS = {"email"}:
\* filter_users_by_email looks the address up lower-cased as a whole
\* (email.lower()); of the rows stored under it, the first whose password
\* verifies and which is active.
AllauthBackend(table, email, password) ==
    IF email = None \/ email = <<>> \/ password = None THEN {}
    ELSE LET hits == {k \in DOMAIN table :
                         /\ table[k].email = LowerAll(email)
                         /\ check_password(password, table[k].password)
                         /\ user_can_authenticate(table[k])}
         IN  IF hits = {} THEN {}
             ELSE {CHOOSE k \in hits : \A j \in hits : k <= j}

\* authenticate with ModelBackend as the only backend.
authenticate_ModelBackendOnly(table, email, password) ==
    LET m == ModelBackend(table, email, password)
    IN  IF m # {} THEN CHOOSE k \in m : TRUE ELSE 0

\* authenticate(email=..., password=...): the first backend that returns a
\* user decides; 0 stands for None.
authenticate(table, email, password) ==
    LET m == ModelBackend(table, email, password)
        a == AllauthBackend(table, email, password)
    IN  IF m # {} THEN CHOOSE k \in m : TRUE
        ELSE IF a # {} THEN CHOOSE k \in a : TRUE
        ELSE 0

(***************************************************************************)
(* Login: the test client's login and the token endpoint of urls.py:31     *)
(***************************************************************************)
\* update_last_login, the receiver of user_logged_in: last_login becomes
\* the clock's reading t and only that column is saved.
update_last_login(table, pk, t) == [table EXCEPT ![pk].last_login = t]

\* A login that leaves last_login alone.
login_NoUpdate(table, t, email, password) ==
    [users |-> table,
     result |-> Ok("login", <<>>, authenticate(table, email, password))]

\* client.login(email=..., password=...): authenticate, and login() of the
\* user it returned. Gives the table and the user logged in (0: the login
\* failed and returned False).
login(table, t, email, password) ==
    LET r == authenticate(table, email, password)
    IN  [users |-> IF r = 0 THEN table ELSE update_last_login(table, r, t),
         result |-> Ok("login", <<>>, r)]

\* SIMPLE_JWT["UPDATE_LAST_LOGIN"] (production.py:39)
UPDATE_LAST_LOGIN == TRUE

\* The serializer's refusal of a user who is None or inactive.
AuthenticationFailed ==
    [exc |-> "AuthenticationFailed",
     msg |-> "No active account found with the given credentials"]

\* TokenObtainPairView: the serializer authenticates, refuses a user who is
\* None or inactive, and with UPDATE_LAST_LOGIN updates last_login of the
\* user the tokens are issued for. Gives the table and that user.
obtain_token(table, t, email, password) ==
    LET r == authenticate(table, email, password)
    IN  IF r = 0 \/ ~table[r].is_active
        THEN [users |-> table,
              result |-> Raised("token_obtain_pair", <<>>,
                                AuthenticationFailed.exc,
                                AuthenticationFailed.msg)]
        ELSE [users |-> IF UPDATE_LAST_LOGIN
                        THEN update_last_login(table, r, t) ELSE table,
              result |-> Ok("token_obtain_pair", <<>>, r)]

(***************************************************************************)
(* PermissionsMixin.has_perm (models.py:44) with the configured backends   *)
(***************************************************************************)
\* ModelBackend.get_all_permissions without the permissions of the groups.
get_all_permissions_DirectOnly(user, gp) ==
    IF ~user.is_active THEN {}
    ELSE IF user.is_superuser THEN Permissions
    ELSE user.user_permissions

\* ModelBackend.get_all_permissions: nothing for an inactive user, every
\* Permission row for a superuser, otherwise the user's own permissions
\* and those of the user's groups (gp: the permissions of each group).
get_all_permissions(user, gp) ==
    IF ~user.is_active THEN {}
    ELSE IF user.is_superuser THEN Permissions
    ELSE user.user_permissions \cup UNION {gp[g] : g \in user.groups}

\* ModelBackend.has_perm, which allauth's backend inherits.
backend_has_perm(user, gp, perm) ==
    user.is_active /\ perm \in get_all_permissions(user, gp)

\* has_perm without the superuser shortcut.
has_perm_BackendsOnly(user, gp, perm) == backend_has_perm(user, gp, perm)

\* has_perm with the superuser shortcut taken for inactive users too.
has_perm_Unconditional(user, gp, perm) ==
    user.is_superuser \/ backend_has_perm(user, gp, perm)

\* has_perm with the shortcut taken for staff as well.
has_perm_StaffToo(user, gp, perm) ==
    \/ user.is_active /\ (user.is_superuser \/ user.is_staff)
    \/ backend_has_perm(user, gp, perm)

\* PermissionsMixin.has_perm: an active superuser has every permission;
\* otherwise the backends are asked.
has_perm(user, gp, perm) ==
    \/ user.is_active /\ user.is_superuser
    \/ backend_has_perm(user, gp, perm)

(***************************************************************************)
(* create_user (models.py:18-30) statement by statement, for calls that    *)
(* run concurrently: each call has its own arguments, its own instance and *)
(* its own position; the table is shared.                                  *)
(***************************************************************************)
CallIds == 1..MaxCalls

\* A call that has not been made: no instance yet.
NotCalled ==
    [pc |-> "idle", email |-> None, password |-> None,
     user |-> [email |-> None], raised |-> "", ret |-> 0]

\* models.py:24-25: if not email: raise ValueError
call_validate(call) ==
    IF Falsy(call.email)
    THEN [call EXCEPT !.pc = "raised", !.raised = EmailRequired.exc]
    ELSE [call EXCEPT !.pc = "validated"]

\* models.py:26-27: email = self.normalize_email(email);
\* user = self.model(email=email, **extra_fields)
call_normalize(call) ==
    [call EXCEPT !.pc = "normalized",
                 !.email = normalize_email(call.email),
                 !.user = NewInstance(normalize_email(call.email), <<>>)]

\* models.py:28: user.set_password(password)
call_hash(call) ==
    [call EXCEPT !.pc = "hashed", !.user = set_password(call.user, call.password)]

\* models.py:29-30: user.save(using=self._db); return user. The INSERT is
\* one statement under the unique index; an IntegrityError leaves
\* create_user, which catches nothing and does not try again.
call_save(call, out) ==
    IF out.result.raised # ""
    THEN [call EXCEPT !.pc = "raised", !.raised = out.result.raised]
    ELSE [call EXCEPT !.pc = "returned", !.ret = out.result.ret]

(***************************************************************************)
(* The health check (config/urls.py)                                       *)
(***************************************************************************)
\* What the probe's two statements can do: connection.cursor() and
\* cursor.execute("SELECT 1") each return, or raise an exception with a
\* message. Leaving the with block closes the cursor, and CursorWrapper
\* swallows the database errors of close().
NoError == [exc |-> "", msg |-> ""]

ProbeOutcomes ==
    { NoError,
      [exc |-> "OperationalError", msg |-> "connection refused"],
      [exc |-> "ImproperlyConfigured", msg |-> "ENGINE is missing"] }

\* JsonResponse(data, status=status), returned to the caller.
JsonResponse(data, status) ==
    [status |-> status, body |-> data, raised |-> ""]

\* No request answered yet.
NoResponse == [status |-> 0, body |-> [status |-> ""], raised |-> ""]

\* The exception the try block raises: that of cursor() if it raises, for
\* then execute() is not reached, else that of execute().
ProbeError(cursor, execute) ==
    IF cursor.exc # "" THEN cursor ELSE execute

\* A health check whose handler catches database errors only.
health_check_DatabaseErrorOnly(cursor, execute) ==
    LET e == ProbeError(cursor, execute)
    IN  IF e.exc = ""
        THEN JsonResponse([status |-> "healthy", database |-> "connected"], 200)
        ELSE IF e.exc = "OperationalError"
        THEN JsonResponse([status |-> "unhealthy", error |-> e.msg], 503)
        ELSE [status |-> 0, body |-> [status |-> ""], raised |-> e.exc]

\* health_check(request): the request is not read. except Exception
\* catches what the probe raises and answers 503 with str(e).
health_check(cursor, execute) ==
    LET e == ProbeError(cursor, execute)
    IN  IF e.exc = ""
        THEN JsonResponse([status |-> "healthy", database |-> "connected"], 200)
        ELSE JsonResponse([status |-> "unhealthy", error |-> e.msg], 503)

(***************************************************************************)
(* The settings package (config/settings)                                  *)
(***************************************************************************)
\* The environment variables the settings read that bear on the module,
\* the database and the secret key, and DEBUG, which no module reads.
EnvNames == {"DJANGO_ENV", "DB_ENGINE", "DB_NAME", "SECRET_KEY", "DEBUG"}

\* The values a variable is given.
EnvValues(name) ==
    CASE name = "DJANGO_ENV" ->
             {"production", "test", "development", "staging", "Production", ""}
      [] name = "DB_ENGINE" ->
             {"django.db.backends.postgresql", "django.db.backends.sqlite3",
              "django.db.backends.mysql"}
      [] name = "DB_NAME" -> {"mydb"}
      [] name = "SECRET_KEY" -> {"s3cret"}
      [] name = "DEBUG" -> {"True"}

\* A variable of os.environ: set to a value, or not set.
EnvUnset == [set |-> FALSE, value |-> ""]

EnvSet(v) == [set |-> TRUE, value |-> v]

\* os.environ.get(name, default)
environ_get(env, name, default) ==
    IF env[name].set THEN env[name].value ELSE default

\* No settings module imported yet.
NotLoaded ==
    [module |-> "", raised |-> "", DEBUG |-> FALSE, ENGINE |-> "",
     NAME |-> "", SECRET_KEY |-> ""]

\* The settings a module leaves when its import completes: DEBUG, ENGINE
\* and NAME of DATABASES["default"], SECRET_KEY.
Loaded(module, debug, engine, name, key) ==
    [module |-> module, raised |-> "", DEBUG |-> debug, ENGINE |-> engine,
     NAME |-> name, SECRET_KEY |-> key]

\* The import of a module that raises leaves no settings.
ImportRaised(module, exc) ==
    [module |-> module, raised |-> exc, DEBUG |-> FALSE, ENGINE |-> "",
     NAME |-> "", SECRET_KEY |-> ""]

\* The key base.py falls back on when SECRET_KEY is not set.
FallbackKey == "django-insecure-fallback-key-for-development-only"

\* from .base import *: the settings of base.py that no module replaces.
base(env) ==
    [SECRET_KEY |-> environ_get(env, "SECRET_KEY", FallbackKey)]

\* BASE_DIR / "db.sqlite3"
SqliteFile == "BASE_DIR/db.sqlite3"

\* development.py: DEBUG = True; PostgreSQL unless DB_ENGINE names
\* another engine, and then SQLite in a file.
development(env) ==
    LET DB_ENGINE == environ_get(env, "DB_ENGINE", "django.db.backends.postgresql")
    IN  IF DB_ENGINE = "django.db.backends.postgresql"
        THEN Loaded("development", TRUE, "django.db.backends.postgresql",
                    environ_get(env, "DB_NAME", "iso_standards"),
                    base(env).SECRET_KEY)
        ELSE Loaded("development", TRUE, "django.db.backends.sqlite3",
                    SqliteFile, base(env).SECRET_KEY)

\* test.py: DEBUG = False; SQLite in memory.
test(env) ==
    Loaded("test", FALSE, "django.db.backends.sqlite3", ":memory:",
           base(env).SECRET_KEY)

\* A production.py that reads DEBUG from the environment.
production_DebugFromEnv(env) ==
    IF ~env["SECRET_KEY"].set
    THEN ImportRaised("production", "KeyError")
    ELSE Loaded("production", environ_get(env, "DEBUG", "False") = "True",
                environ_get(env, "DB_ENGINE", "django.db.backends.postgresql"),
                environ_get(env, "DB_NAME", "postgres"),
                env["SECRET_KEY"].value)

\* A production.py that keeps the key of base.py.
production_FallbackKey(env) ==
    Loaded("production", FALSE,
           environ_get(env, "DB_ENGINE", "django.db.backends.postgresql"),
           environ_get(env, "DB_NAME", "postgres"),
           base(env).SECRET_KEY)

\* production.py: DEBUG = False; SECRET_KEY = os.environ["SECRET_KEY"],
\* a KeyError when the variable is not set; the engine DB_ENGINE names,
\* PostgreSQL when it names none.
production(env) ==
    IF ~env["SECRET_KEY"].set
    THEN ImportRaised("production", "KeyError")
    ELSE Loaded("production", FALSE,
                environ_get(env, "DB_ENGINE", "django.db.backends.postgresql"),
                environ_get(env, "DB_NAME", "postgres"),
                env["SECRET_KEY"].value)

\* A package that reads DJANGO_ENV without regard to case.
settings_init_AnyCase(env) ==
    LET environment == environ_get(env, "DJANGO_ENV", "development")
    IN  IF environment \in {"production", "Production"} THEN production(env)
        ELSE IF environment = "test" THEN test(env)
        ELSE development(env)

\* config/settings/__init__.py: the module DJANGO_ENV selects.
settings_init(env) ==
    LET environment == environ_get(env, "DJANGO_ENV", "development")
    IN  IF environment = "production" THEN production(env)
        ELSE IF environment = "test" THEN test(env)
        ELSE development(env)

(***************************************************************************)
(* The account forms (accounts/forms.py)                                   *)
(***************************************************************************)
\* No form submitted yet.
NoForm == [op |-> "", errors |-> {}, ret |-> 0]

\* EmailValidator, as far as the addresses here need it: an "@" with
\* something before it and something after it.
EmailValidator(email) ==
    LastAt(email) > 1 /\ LastAt(email) < Len(email)

\* The passwords the validators of AUTH_PASSWORD_VALIDATORS refuse.
WeakPasswords == { <<"1">> }

\* A form field of a nullable CharField cleans "" to None.
EmptyToNone(v) == IF v = <<>> THEN None ELSE v

\* The errors of the email field: required, then the validator, then,
\* for a well-formed address, the unique check of the model against the
\* rows other than pk.
EmailErrors(table, pk, email) ==
    IF email = None \/ email = <<>> THEN { <<"email", "required">> }
    ELSE IF ~EmailValidator(email) THEN { <<"email", "invalid">> }
    ELSE IF UniqueViolation(table, pk, email) THEN { <<"email", "unique">> }
    ELSE {}

\* The errors of the password pair, both reported on password2: the two
\* entries differ, or the validators refuse the password.
PasswordErrors(password1, password2) ==
    IF password1 # password2 THEN { <<"password2", "password_mismatch">> }
    ELSE IF password2 \in WeakPasswords
    THEN { <<"password2", "password_too_short">> }
    ELSE {}

\* A creation form that does not compare the two password entries.
creation_form_NoConfirm(table, nid, data) ==
    LET errors == EmailErrors(table, nid, data.email)
        user   == set_password(
                      [NewInstance(data.email, <<>>) EXCEPT
                           !.first_name = EmptyToNone(data.first_name),
                           !.last_name = EmptyToNone(data.last_name)],
                      data.password1)
    IN  IF errors # {}
        THEN [users |-> table, nextId |-> nid,
              form |-> [op |-> "creation", errors |-> errors, ret |-> 0]]
        ELSE [users |-> WriteRow(table, nid, user), nextId |-> nid + 1,
              form |-> [op |-> "creation", errors |-> {}, ret |-> nid]]

\* form = CustomUserCreationForm(data); if form.is_valid(): form.save().
\* save() builds the instance from the cleaned email and names, hashes
\* password1 and inserts the row; an invalid form saves nothing.
creation_form(table, nid, data) ==
    LET errors == EmailErrors(table, nid, data.email)
                      \cup PasswordErrors(data.password1, data.password2)
        user   == set_password(
                      [NewInstance(data.email, <<>>) EXCEPT
                           !.first_name = EmptyToNone(data.first_name),
                           !.last_name = EmptyToNone(data.last_name)],
                      data.password1)
    IN  IF errors # {}
        THEN [users |-> table, nextId |-> nid,
              form |-> [op |-> "creation", errors |-> errors, ret |-> 0]]
        ELSE [users |-> WriteRow(table, nid, user), nextId |-> nid + 1,
              form |-> [op |-> "creation", errors |-> {}, ret |-> nid]]

\* form = CustomUserChangeForm(data, instance=user); if form.is_valid():
\* form.save(). The fields are email, first_name, last_name, is_active,
\* is_staff and password; password shows the stored hash read-only and
\* takes no input, so the data carry none.
change_form(table, pk, data) ==
    LET errors == EmailErrors(table, pk, data.email)
        row    == [table[pk] EXCEPT
                       !.email = data.email,
                       !.first_name = EmptyToNone(data.first_name),
                       !.last_name = EmptyToNone(data.last_name),
                       !.is_active = data.is_active,
                       !.is_staff = data.is_staff]
    IN  IF errors # {}
        THEN [users |-> table,
              form |-> [op |-> "change", errors |-> errors, ret |-> 0]]
        ELSE [users |-> save(table, pk, row),
              form |-> [op |-> "change", errors |-> {}, ret |-> pk]]

(***************************************************************************)
(* Actions                                                                 *)
(***************************************************************************)
Init ==
    /\ users = <<>>
    /\ nextId = 1
    /\ result = Ok("init", <<>>, 0)
    /\ group_permissions = [g \in Groups |-> {}]
    /\ now = 1
    /\ calls = [c \in CallIds |-> NotCalled]
    /\ response = NoResponse
    /\ environ = [n \in EnvNames |-> EnvUnset]
    /\ settings = NotLoaded
    /\ form = NoForm

Apply(out) ==
    /\ users' = out.users
    /\ nextId' = out.nextId
    /\ result' = out.result
    /\ UNCHANGED <<group_permissions, now, calls, response, environ, settings, form>>

CreateUser(email, password, extra) ==
    /\ nextId <= MaxAccounts
    /\ Apply(create_user("create_user", users, nextId, email, password, extra))

CreateSuperuser(email, password, extra) ==
    /\ nextId <= MaxAccounts
    /\ Apply(create_superuser("create_superuser", users, nextId,
                              email, password, extra))

\* user.email = email; user.save()
SaveEmail(pk, email) ==
    /\ pk \in DOMAIN users
    /\ users' = save(users, pk, [users[pk] EXCEPT !.email = email])
    /\ UNCHANGED <<nextId, result, group_permissions, now, calls, response, environ, settings, form>>

\* user.<flag> = value; user.save()
SaveFlag(pk, flag, value) ==
    /\ pk \in DOMAIN users
    /\ users' = save(users, pk, AssignFlag(users[pk], flag, value))
    /\ UNCHANGED <<nextId, result, group_permissions, now, calls, response, environ, settings, form>>

\* user.set_password(raw); user.save()
SetPassword(pk, raw) ==
    /\ pk \in DOMAIN users
    /\ users' = save(users, pk, set_password(users[pk], raw))
    /\ UNCHANGED <<nextId, result, group_permissions, now, calls, response, environ, settings, form>>

\* user.delete()
Delete(pk) ==
    /\ pk \in DOMAIN users
    /\ users' = delete(users, pk)
    /\ UNCHANGED <<nextId, result, group_permissions, now, calls, response, environ, settings, form>>

\* user.user_permissions.add(permission)
GrantPermission(pk, perm) ==
    /\ pk \in DOMAIN users
    /\ users' = [users EXCEPT ![pk].user_permissions = @ \cup {perm}]
    /\ UNCHANGED <<nextId, result, group_permissions, now, calls, response, environ, settings, form>>

\* user.groups.add(group)
JoinGroup(pk, g) ==
    /\ pk \in DOMAIN users
    /\ users' = [users EXCEPT ![pk].groups = @ \cup {g}]
    /\ UNCHANGED <<nextId, result, group_permissions, now, calls, response, environ, settings, form>>

\* group.permissions.add(permission)
GroupGrant(g, perm) ==
    /\ group_permissions' = [group_permissions EXCEPT ![g] = @ \cup {perm}]
    /\ UNCHANGED <<users, nextId, result, now, calls, response, environ, settings, form>>

\* The clock advances.
Tick ==
    /\ now < MaxClock
    /\ now' = now + 1
    /\ UNCHANGED <<users, nextId, result, group_permissions, calls, response, environ, settings, form>>

\* client.login(email=email, password=password)
Login(email, password) ==
    /\ users' = login(users, now, email, password).users
    /\ result' = login(users, now, email, password).result
    /\ UNCHANGED <<nextId, group_permissions, now, calls, response, environ, settings, form>>

\* POST api/v1/auth/login/ with the email and the password
ObtainToken(email, password) ==
    /\ users' = obtain_token(users, now, email, password).users
    /\ result' = obtain_token(users, now, email, password).result
    /\ UNCHANGED <<nextId, group_permissions, now, calls, response, environ, settings, form>>

\* user.first_name = first; user.last_name = last; user.save()
SaveName(pk, first, last) ==
    /\ pk \in DOMAIN users
    /\ users' = save(users, pk, [users[pk] EXCEPT !.first_name = first,
                                                  !.last_name = last])
    /\ UNCHANGED <<nextId, result, group_permissions, now, calls, response, environ, settings, form>>

\* A caller enters create_user(email=email, password=password).
Call(c, email, password) ==
    /\ calls[c].pc = "idle"
    /\ calls' = [calls EXCEPT ![c] = [NotCalled EXCEPT !.pc = "called",
                                                       !.email = email,
                                                       !.password = password]]
    /\ UNCHANGED <<users, nextId, result, group_permissions, now, response, environ, settings, form>>

Validate(c) ==
    /\ calls[c].pc = "called"
    /\ calls' = [calls EXCEPT ![c] = call_validate(@)]
    /\ UNCHANGED <<users, nextId, result, group_permissions, now, response, environ, settings, form>>

Normalize(c) ==
    /\ calls[c].pc = "validated"
    /\ calls' = [calls EXCEPT ![c] = call_normalize(@)]
    /\ UNCHANGED <<users, nextId, result, group_permissions, now, response, environ, settings, form>>

Hash(c) ==
    /\ calls[c].pc = "normalized"
    /\ calls' = [calls EXCEPT ![c] = call_hash(@)]
    /\ UNCHANGED <<users, nextId, result, group_permissions, now, response, environ, settings, form>>

Insert(c) ==
    /\ calls[c].pc = "hashed"
    /\ LET out == save_new("create_user", users, nextId, calls[c].user)
       IN  /\ users' = out.users
           /\ nextId' = out.nextId
           /\ calls' = [calls EXCEPT ![c] = call_save(@, out)]
    /\ UNCHANGED <<result, group_permissions, now, response, environ, settings, form>>

\* GET health/: path("health/", health_check). The probe reads the
\* database and writes nothing.
HealthCheck(cursor, execute) ==
    /\ response' = health_check(cursor, execute)
    /\ UNCHANGED <<users, nextId, result, group_permissions, now, calls,
                   environ, settings, form>>

\* A submission of the creation form.
SubmitCreationForm(data) ==
    /\ nextId <= MaxAccounts
    /\ LET out == creation_form(users, nextId, data)
       IN  /\ users' = out.users
           /\ nextId' = out.nextId
           /\ form' = out.form
    /\ UNCHANGED <<result, group_permissions, now, calls, response, environ,
                   settings>>

\* A submission of the change form for account pk.
SubmitChangeForm(pk, data) ==
    /\ pk \in DOMAIN users
    /\ LET out == change_form(users, pk, data)
       IN  /\ users' = out.users
           /\ form' = out.form
    /\ UNCHANGED <<nextId, result, group_permissions, now, calls, response,
                   environ, settings>>

\* The environment is set before the process starts.
SetEnv(name, value) ==
    /\ settings = NotLoaded
    /\ environ' = [environ EXCEPT ![name] = EnvSet(value)]
    /\ UNCHANGED <<users, nextId, result, group_permissions, now, calls,
                   response, settings, form>>

UnsetEnv(name) ==
    /\ settings = NotLoaded
    /\ environ[name].set
    /\ environ' = [environ EXCEPT ![name] = EnvUnset]
    /\ UNCHANGED <<users, nextId, result, group_permissions, now, calls,
                   response, settings, form>>

\* The process starts: django.setup() imports config.settings.
LoadSettings ==
    /\ settings = NotLoaded
    /\ settings' = settings_init(environ)
    /\ UNCHANGED <<users, nextId, result, group_permissions, now, calls,
                   response, environ, form>>

\* The process ends.
Exit ==
    /\ settings # NotLoaded
    /\ settings' = NotLoaded
    /\ UNCHANGED <<users, nextId, result, group_permissions, now, calls,
                   response, environ, form>>

Next ==
    \/ \E e \in EmailInputs, p \in PasswordInputs, f \in ExtraInputs :
           CreateUser(e, p, f)
    \/ \E e \in EmailInputs, p \in PasswordInputs, f \in ExtraInputs :
           CreateSuperuser(e, p, f)
    \/ \E pk \in Ids, e \in AssignedEmails : SaveEmail(pk, e)
    \/ \E pk \in Ids, flag \in FlagNames, v \in BOOLEAN : SaveFlag(pk, flag, v)
    \/ \E pk \in Ids, p \in PasswordInputs : SetPassword(pk, p)
    \/ \E pk \in Ids : Delete(pk)

Spec == Init /\ [][Next]_vars

(***************************************************************************)
(* The authentication and lifecycle flows of tests/test_integration.py:    *)
(* accounts are created by create_user without flag overrides, with the    *)
(* password "p" or none; a loaded account is then deactivated and          *)
(* reactivated, its password changed, its email edited, or it is deleted.  *)
(***************************************************************************)
\* Emails given to create_user in these flows: "U@X" and "u@x".
AuthEmails == { <<"U", "@", "X">>, <<"u", "@", "x">> }

\* Passwords given to create_user in these flows: none, or "p".
AuthPasswords == { None, <<"p">> }

\* Values assigned to user.email before a direct save() in these flows:
\* "U@X" and "u@X".
AuthAssignedEmails == { <<"U", "@", "X">>, <<"u", "@", "X">> }

NextAuth ==
    \/ \E e \in AuthEmails, p \in AuthPasswords : CreateUser(e, p, <<>>)
    \/ \E pk \in Ids, e \in AuthAssignedEmails : SaveEmail(pk, e)
    \/ \E pk \in Ids, v \in BOOLEAN : SaveFlag(pk, "is_active", v)
    \/ \E pk \in Ids, p \in PasswordInputs : SetPassword(pk, p)
    \/ \E pk \in Ids : Delete(pk)

SpecAuth == Init /\ [][NextAuth]_vars

(***************************************************************************)
(* The permission flows of tests/test_integration.py: accounts are created *)
(* by create_user and create_superuser without a password; flags are       *)
(* saved, permissions granted to accounts and to groups, groups joined.    *)
(***************************************************************************)
\* Emails given to the manager in these flows: "u@x" and "v@x".
PermEmails == { <<"u", "@", "x">>, <<"v", "@", "x">> }

\* CustomUser.objects.create_user(email=e)
CreateRegular(e) ==
    /\ nextId <= MaxPermAccounts
    /\ CreateUser(e, None, <<>>)

\* CustomUser.objects.create_superuser(email=e)
CreateAdmin(e) ==
    /\ nextId <= MaxPermAccounts
    /\ CreateSuperuser(e, None, <<>>)

NextPerm ==
    \/ \E e \in PermEmails : CreateRegular(e)
    \/ \E e \in PermEmails : CreateAdmin(e)
    \/ \E pk \in Ids, flag \in FlagNames, v \in BOOLEAN : SaveFlag(pk, flag, v)
    \/ \E pk \in Ids, c \in Permissions : GrantPermission(pk, c)
    \/ \E pk \in Ids, g \in Groups : JoinGroup(pk, g)
    \/ \E g \in Groups, c \in Permissions : GroupGrant(g, c)
    \/ \E pk \in Ids : Delete(pk)

SpecPerm == Init /\ [][NextPerm]_vars

(***************************************************************************)
(* The flows in which time passes: accounts are created by create_user     *)
(* with the password "p", log in through the client or the token endpoint, *)
(* and are updated while the clock advances.                               *)
(***************************************************************************)
\* Emails of the accounts in these flows: "u@x" and "v@x".
TimeEmails == { <<"u", "@", "x">>, <<"v", "@", "x">> }

\* Passwords tried at login: "p" and "q".
TimePasswords == { <<"p">>, <<"q">> }

NextTime ==
    \/ \E e \in TimeEmails : CreateUser(e, <<"p">>, <<>>)
    \/ Tick
    \/ \E e \in TimeEmails, p \in TimePasswords : Login(e, p)
    \/ \E e \in TimeEmails, p \in TimePasswords : ObtainToken(e, p)
    \/ \E pk \in Ids, flag \in {"is_active", "is_staff"}, v \in BOOLEAN :
           SaveFlag(pk, flag, v)
    \/ \E pk \in Ids : SaveName(pk, <<"A">>, <<"B">>)
    \/ \E pk \in Ids : SetPassword(pk, <<"q">>)

SpecTime == Init /\ [][NextTime]_vars

(***************************************************************************)
(* Concurrent create_user calls on an empty table, interleaved statement   *)
(* by statement.                                                           *)
(***************************************************************************)
\* Emails given to the concurrent calls: "U@X" and "U@x", which normalize
\* to "U@x", and "u@x"; and "", which create_user refuses.
ConcEmails ==
    { <<"U", "@", "X">>, <<"U", "@", "x">>, <<"u", "@", "x">>, <<>> }

NextConc ==
    \/ \E c \in CallIds, e \in ConcEmails : Call(c, e, <<"p">>)
    \/ \E c \in CallIds : Validate(c)
    \/ \E c \in CallIds : Normalize(c)
    \/ \E c \in CallIds : Hash(c)
    \/ \E c \in CallIds : Insert(c)

SpecConc == Init /\ [][NextConc]_vars

(***************************************************************************)
(* The health check answered while accounts are created, deactivated and   *)
(* deleted.                                                                *)
(***************************************************************************)
NextHealth ==
    \/ \E e \in TimeEmails : CreateUser(e, <<"p">>, <<>>)
    \/ \E pk \in Ids, v \in BOOLEAN : SaveFlag(pk, "is_active", v)
    \/ \E pk \in Ids : Delete(pk)
    \/ \E c, x \in ProbeOutcomes : HealthCheck(c, x)

SpecHealth == Init /\ [][NextHealth]_vars

(***************************************************************************)
(* Forms submitted and accounts updated while the clock advances.          *)
(***************************************************************************)
\* Emails entered in the forms: none, one that is no address, and two
\* addresses.
FormEmails == { None, <<"n", "o">> } \cup TimeEmails

\* The password pairs entered: equal and strong, different, equal and weak.
FormPasswordPairs ==
    { << <<"S">>, <<"S">> >>, << <<"S">>, <<"T">> >>, << <<"1">>, <<"1">> >> }

CreationData ==
    { [email |-> e, first_name |-> <<"A">>, last_name |-> <<>>,
       password1 |-> pp[1], password2 |-> pp[2]] :
          e \in FormEmails, pp \in FormPasswordPairs }

ChangeData ==
    { [email |-> e, first_name |-> <<"A">>, last_name |-> <<"B">>,
       is_active |-> a, is_staff |-> st] :
          e \in FormEmails, a \in BOOLEAN, st \in BOOLEAN }

NextForms ==
    \/ \E data \in CreationData : SubmitCreationForm(data)
    \/ CreateSuperuser(<<"v", "@", "x">>, <<"S">>, <<>>)
    \/ \E pk \in Ids, data \in ChangeData : SubmitChangeForm(pk, data)
    \/ \E pk \in Ids : SaveName(pk, <<"A">>, <<"B">>)
    \/ \E pk \in Ids, flag \in {"is_active", "is_staff"}, v \in BOOLEAN :
           SaveFlag(pk, flag, v)
    \/ Tick

SpecForms == Init /\ [][NextForms]_vars

(***************************************************************************)
(* Processes started under every environment.                              *)
(***************************************************************************)
NextSettings ==
    \/ \E name \in EnvNames : \E value \in EnvValues(name) : SetEnv(name, value)
    \/ \E name \in EnvNames : UnsetEnv(name)
    \/ LoadSettings
    \/ Exit

SpecSettings == Init /\ [][NextSettings]_vars

(***************************************************************************)
(* Properties                                                              *)
(*                                                                         *)
(* A property of a manager call is stated of the outcome of every call     *)
(* that is enabled in a reachable state: the actions apply exactly these   *)
(* outcomes.                                                               *)
(***************************************************************************)
CanCreate == nextId <= MaxAccounts

CreateUserOutcome(e, p, f) ==
    create_user("create_user", users, nextId, e, p, f)

CreateSuperuserOutcome(e, p, f) ==
    create_superuser("create_superuser", users, nextId, e, p, f)

NonEmptyEmails == {e \in EmailInputs : e # None /\ e # <<>>}

\* The normalized form of an address as the documentation describes it:
\* surrounding blanks stripped and the part after the last "@" lower-cased;
\* an address without "@" stays as it is.
NormalForm(e) ==
    LET t == Strip(e)
    IN  IF LastAt(e) = 0 THEN e
        ELSE [i \in 1..Len(t) |-> IF i > LastAt(t) THEN Lower(t[i]) ELSE t[i]]

----------------------------------------------------------------------------
RefusedAsDuplicate(out) ==
    /\ out.result.raised = "IntegrityError"
    /\ out.users = users

\* C1: no two stored accounts have the same email, whatever sequence of
\* create_user, create_superuser, update and delete produced the store; and
\* create_user or create_superuser with an email whose normalized form is the
\* email of a stored account raises IntegrityError and leaves the store
\* unchanged.
C1_UniqueEmail ==
    /\ \A a, b \in DOMAIN users : a # b => users[a].email # users[b].email
    /\ CanCreate =>
         \A e \in NonEmptyEmails :
            (\E k \in DOMAIN users : users[k].email = normalize_email(e)) =>
                \A p \in PasswordInputs, f \in ExtraInputs :
                    /\ RefusedAsDuplicate(CreateUserOutcome(e, p, f))
                    /\ RefusedAsDuplicate(CreateSuperuserOutcome(e, p, f))

\* A create call was refused by the unique index while the store holds an
\* account.
C1_Witness ==
    /\ result.op \in {"create_user", "create_superuser"}
    /\ result.raised = "IntegrityError"
    /\ users # <<>>

RefusedBeforeAnyStep(out) ==
    /\ out.result.raised # ""
    /\ out.result.msg = "The Email field must be set"
    /\ out.result.steps = <<>>
    /\ out.users = users
    /\ out.nextId = nextId

\* C2: create_user with "" or None as email fails with the message "The
\* Email field must be set" before normalize_email, set_password and save
\* run: no account is created and the store is unchanged.
C2_EmptyEmailRejected ==
    CanCreate =>
        \A e \in {None, <<>>}, p \in PasswordInputs, f \in ExtraInputs :
            RefusedBeforeAnyStep(CreateUserOutcome(e, p, f))

\* create_user was refused with that message, before any step ran, on a
\* store that holds an account.
C2_Witness ==
    /\ result.op = "create_user"
    /\ result.msg = "The Email field must be set"
    /\ result.steps = <<>>
    /\ users # <<>>

\* C3 as stated: the error with which create_user rejects an empty or null
\* email (the one raised before any step ran) is a ValidationError with the
\* message "the email field must be set.".
C3_Original ==
    (result.op = "create_user" /\ result.raised # "" /\ result.steps = <<>>) =>
        /\ result.raised = "ValidationError"
        /\ result.msg = "the email field must be set."

RaisedValueError(out) ==
    /\ out.result.raised = "ValueError"
    /\ out.result.msg = "The Email field must be set"

\* C3: the error with which create_user rejects an empty or null email is a
\* ValueError and carries the message "The Email field must be set".
C3_ValueError ==
    CanCreate =>
        \A e \in {None, <<>>}, p \in PasswordInputs, f \in ExtraInputs :
            RaisedValueError(CreateUserOutcome(e, p, f))

\* create_user raised a ValueError.
C3_Witness ==
    /\ result.op = "create_user"
    /\ result.raised = "ValueError"

\* The call returned the account it stored under the key it drew, with email
\* n, and the lookup by n finds that account alone.
StoredUnder(out, n) ==
    /\ out.result.raised = ""
    /\ out.result.ret = nextId
    /\ nextId \in DOMAIN out.users
    /\ out.users[nextId].email = n
    /\ ByEmail(out.users, n) = {nextId}

\* C4 as stated: create_user(e), for a non-empty e that is not the email of
\* a stored account, persists an account whose email is the normalized form
\* of e, and the lookup by that normalized form returns exactly the created
\* account.
C4_Original ==
    CanCreate =>
        \A e \in NonEmptyEmails :
            (\A k \in DOMAIN users : users[k].email # e) =>
                \A p \in PasswordInputs, f \in ExtraInputs :
                    StoredUnder(CreateUserOutcome(e, p, f), NormalForm(e))

\* C4: create_user(e), for a non-empty e whose normalized form is not the
\* email of a stored account, persists an account whose email is the
\* normalized form of e (surrounding blanks stripped, domain part lower-cased,
\* local part otherwise unchanged), and the lookup by that normalized form
\* returns exactly the created account.
C4_NormalizedLookup ==
    CanCreate =>
        \A e \in NonEmptyEmails :
            (\A k \in DOMAIN users : users[k].email # NormalForm(e)) =>
                \A p \in PasswordInputs, f \in ExtraInputs :
                    StoredUnder(CreateUserOutcome(e, p, f), NormalForm(e))

\* create_user returned an account whose stored email differs from an
\* address it can have been created from only in the case of the domain.
C4_Witness ==
    /\ result.op = "create_user"
    /\ result.raised = ""
    /\ result.ret \in DOMAIN users
    /\ users[result.ret].email = <<"U", "@", "x">>
    /\ ByEmail(users, NormalForm(<<"U", "@", "X">>)) = {result.ret}

\* The last call was a create_user that returned an account stored under
\* the normalized form of "U@X" (User@EXAMPLE.com).
CreatedUserAtEXAMPLE ==
    /\ result.op = "create_user"
    /\ result.raised = ""
    /\ result.ret \in DOMAIN users
    /\ users[result.ret].email = normalize_email(<<"U", "@", "X">>)

\* C5 as stated: after an account was created with User@EXAMPLE.com,
\* create_user with user@example.com fails with a uniqueness violation.
C5_Original ==
    (CanCreate /\ CreatedUserAtEXAMPLE) =>
        \A p \in PasswordInputs, f \in ExtraInputs :
            CreateUserOutcome(<<"u", "@", "x">>, p, f).result.raised
                = "IntegrityError"

\* C5: after an account was created with User@EXAMPLE.com, create_user with
\* User@example.com (the same address but for the case of the domain) fails
\* with a uniqueness violation and leaves the store unchanged.
C5_DomainCaseCollision ==
    (CanCreate /\ CreatedUserAtEXAMPLE) =>
        \A p \in PasswordInputs, f \in ExtraInputs :
            RefusedAsDuplicate(CreateUserOutcome(<<"U", "@", "x">>, p, f))

\* create_user was refused by the unique index while the one stored account
\* is User@example.com.
C5_Witness ==
    /\ result.op = "create_user"
    /\ result.raised = "IntegrityError"
    /\ DOMAIN users = {1}
    /\ users[1].email = <<"U", "@", "x">>

\* The part of an address after its last "@" is in lower case.
DomainLowerCased(s) ==
    \A i \in 1..Len(s) : (LastAt(s) > 0 /\ i > LastAt(s)) => s[i] = Lower(s[i])

\* C6: the email of every stored account is in normalized form (domain part
\* lower-cased), whichever operation persisted it, a direct save of a changed
\* email included.
C6_AllNormalized ==
    \A k \in DOMAIN users : DomainLowerCased(users[k].email)

\* The flags of a stored account, as <<is_active, is_staff, is_superuser>>.
Flags(user) == <<user.is_active, user.is_staff, user.is_superuser>>

\* If the call returned an account, its flags are those of f where f sets
\* them and those of `defaults` elsewhere.
CreatedWithFlags(out, f, defaults) ==
    out.result.raised = "" =>
        \A flag \in FlagNames :
            out.users[nextId][flag] =
                IF flag \in DOMAIN f THEN f[flag] ELSE defaults[flag]

\* C7: create_user without flag overrides yields is_active, not is_staff,
\* not is_superuser; create_superuser without overrides yields all three
\* true; a flag passed to create_user as an extra field replaces the default.
C7_FlagDefaults ==
    CanCreate =>
        \A e \in NonEmptyEmails, p \in PasswordInputs :
            /\ CreatedWithFlags(CreateUserOutcome(e, p, <<>>), <<>>,
                   [is_active |-> TRUE, is_staff |-> FALSE, is_superuser |-> FALSE])
            /\ CreatedWithFlags(CreateSuperuserOutcome(e, p, <<>>), <<>>,
                   [is_active |-> TRUE, is_staff |-> TRUE, is_superuser |-> TRUE])
            /\ \A f \in ExtraInputs :
                   CreatedWithFlags(CreateUserOutcome(e, p, f), f,
                       [is_active |-> TRUE, is_staff |-> FALSE, is_superuser |-> FALSE])

\* The store holds a plain account with the create_user defaults and a
\* superuser, just created, with the create_superuser defaults.
C7_Witness ==
    /\ result.op = "create_superuser"
    /\ result.raised = ""
    /\ result.ret = 2
    /\ DOMAIN users = {1, 2}
    /\ Flags(users[1]) = <<TRUE, FALSE, FALSE>>
    /\ Flags(users[2]) = <<TRUE, TRUE, TRUE>>

\* The outcomes su and cu agree on the store, the key counter and what was
\* returned or raised, and an account su returned has the flags f sets.
SameOutcomeKeeping(su, cu, f) ==
    /\ su.users = cu.users
    /\ su.nextId = cu.nextId
    /\ su.result.raised = cu.result.raised
    /\ su.result.msg = cu.result.msg
    /\ su.result.steps = cu.result.steps
    /\ su.result.ret = cu.result.ret
    /\ su.result.raised = "" =>
           \A flag \in DOMAIN f : su.users[nextId][flag] = f[flag]

\* C8: create_superuser(e, p, f) has the outcome of create_user(e, p, g),
\* g being f extended with is_staff = True and is_superuser = True where f
\* does not set them: the same store, the same error or returned account; a
\* flag the caller supplies, False included, is kept.
C8_SuperuserIsCreateUser ==
    CanCreate =>
        \A e \in EmailInputs, p \in PasswordInputs, f \in ExtraInputs :
            SameOutcomeKeeping(
                CreateSuperuserOutcome(e, p, f),
                CreateUserOutcome(e, p,
                    [k \in (DOMAIN f) \cup {"is_staff", "is_superuser"} |->
                        IF k \in DOMAIN f THEN f[k] ELSE TRUE]),
                f)

\* create_superuser returned an account that kept the is_staff = False of
\* its caller and got the is_superuser default.
C8_Witness ==
    /\ result.op = "create_superuser"
    /\ result.raised = ""
    /\ result.ret \in DOMAIN users
    /\ ~users[result.ret].is_staff
    /\ users[result.ret].is_superuser

\* Raw passwords that can be set, and the values tried against a stored
\* credential: these, None, "", the unusable marker and an encoded password.
RawPasswords == PasswordInputs \ {None}

TriedPasswords ==
    PasswordInputs \cup {<<>>, <<"!">>, <<"md5", "$", "p">>, <<"md5", "$">>}

\* The table after user.set_password(raw); user.save() on row pk.
SetPasswordOutcome(pk, raw) == save(users, pk, set_password(users[pk], raw))

\* The stored credential `encoded` is not the plaintext p, and verifies
\* exactly p.
HashOf(encoded, p) ==
    /\ encoded # p
    /\ \A q \in TriedPasswords : check_password(q, encoded) <=> q = p

CreatedWithHashOf(out, p) ==
    out.result.raised = "" => HashOf(out.users[nextId].password, p)

RotatedToHashOf(table, pk, p) == HashOf(table[pk].password, p)

\* C9: after a password p is set on an account, at creation or by
\* set_password, the stored credential is not the plaintext p and
\* check_password(q) is true exactly when q = p; and the stored credential
\* changes by no operation but set_password, so this holds of the most
\* recently set password.
C9_PasswordHashed ==
    /\ [](/\ CanCreate =>
               \A e \in NonEmptyEmails, p \in RawPasswords, f \in ExtraInputs :
                   /\ CreatedWithHashOf(CreateUserOutcome(e, p, f), p)
                   /\ CreatedWithHashOf(CreateSuperuserOutcome(e, p, f), p)
          /\ \A pk \in DOMAIN users, p \in RawPasswords :
                   RotatedToHashOf(SetPasswordOutcome(pk, p), pk, p))
    /\ [][\A pk \in (DOMAIN users) \cap (DOMAIN users') :
              users'[pk].password # users[pk].password =>
                  \E p \in PasswordInputs : SetPassword(pk, p)]_vars

\* Passwords were set: the account the manager returned last verifies "q"
\* and not "p", the other account verifies "p" and not "q", and neither
\* stores its plaintext.
C9_Witness ==
    /\ result.raised = ""
    /\ DOMAIN users = {1, 2}
    /\ result.ret = 2
    /\ HashOf(users[2].password, <<"q">>)
    /\ HashOf(users[1].password, <<"p">>)

\* Emails tried at authentication: the manager's inputs, the assigned
\* emails and every stored email.
TriedEmails ==
    EmailInputs \cup AssignedEmails \cup {users[k].email : k \in DOMAIN users}

CreatedUnusable(out) ==
    out.result.raised = "" =>
        /\ out.result.ret = nextId
        /\ nextId \in DOMAIN out.users
        /\ ~has_usable_password(out.users[nextId])

\* C10: an account created by create_user without a password is persisted
\* and has no usable password; an account without a usable password is
\* returned by authenticate for no credential; and it gets a usable password
\* by no operation but set_password.
C10_NoPasswordNoLogin ==
    /\ [](/\ CanCreate =>
               \A e \in NonEmptyEmails, f \in ExtraInputs :
                   CreatedUnusable(CreateUserOutcome(e, None, f))
          /\ \A k \in DOMAIN users :
                   ~has_usable_password(users[k]) =>
                       \A e \in TriedEmails, q \in TriedPasswords :
                           authenticate(users, e, q) # k)
    /\ [][\A k \in (DOMAIN users) \cap (DOMAIN users') :
              (~has_usable_password(users[k]) /\ has_usable_password(users'[k]))
                  => \E p \in PasswordInputs : SetPassword(k, p)]_vars

\* create_user returned an active account that has no usable password.
C10_Witness ==
    /\ result.op = "create_user"
    /\ result.raised = ""
    /\ result.ret \in DOMAIN users
    /\ users[result.ret].is_active
    /\ ~has_usable_password(users[result.ret])

(***************************************************************************)
(* Authentication                                                          *)
(***************************************************************************)
\* Account k passes authenticate's checks for the password q.
PassesChecks(table, k, q) ==
    /\ check_password(q, table[k].password)
    /\ table[k].is_active

\* The result r of authenticate(e, q) is None or an account stored under
\* exactly e that passes the checks, and the account stored under exactly e
\* is the result when it passes them.
ExactlyAuthenticated(r, e, q) ==
    /\ r # 0 => /\ r \in DOMAIN users
                /\ users[r].email = e
                /\ PassesChecks(users, r, q)
    /\ \A k \in DOMAIN users :
           users[k].email = e /\ PassesChecks(users, k, q) => r = k

\* The same, the returned account's email equal to e up to letter case.
AuthenticatedUpToCase(r, e, q) ==
    /\ r # 0 => /\ r \in DOMAIN users
                /\ LowerAll(users[r].email) = LowerAll(e)
                /\ PassesChecks(users, r, q)
    /\ \A k \in DOMAIN users :
           users[k].email = e /\ PassesChecks(users, k, q) => r = k

OtherRaw(q) == IF q = <<"p">> THEN <<"q">> ELSE <<"p">>

\* The store in which account k does not exist (its email is unknown).
WithoutAccount(table, k) == delete(table, k)

\* The store in which account k is active and has a password other than q.
WithOtherPassword(table, k, q) ==
    [table EXCEPT ![k] = set_password(AssignFlag(@, "is_active", TRUE),
                                      OtherRaw(q))]

\* The store in which account k has the password q and is inactive.
WithInactive(table, k, q) ==
    [table EXCEPT ![k] = set_password(AssignFlag(@, "is_active", FALSE), q)]

\* Another account than k would be let in with (e, q).
OtherMatch(table, k, e, q) ==
    \E j \in DOMAIN table \ {k} :
        /\ LowerAll(table[j].email) = LowerAll(e)
        /\ PassesChecks(table, j, q)

\* The three refusals give one and the same value, which is None unless
\* another account is let in.
SameRefusal(k, e, q, unknown, wrong, inactive) ==
    /\ unknown = wrong /\ wrong = inactive
    /\ unknown # k
    /\ ~OtherMatch(users, k, e, q) => unknown = 0

\* C12: authenticate gives the same value, None, whether an account is
\* refused because its email is unknown, because the password is wrong or
\* because it is inactive: for every account k and password q, the stores
\* that differ from one another only in which of the three causes applies
\* to k give the same result for (k's email, q).
C12_UniformRefusal ==
    \A k \in DOMAIN users, q \in RawPasswords :
        SameRefusal(k, users[k].email, q,
            authenticate(WithoutAccount(users, k), users[k].email, q),
            authenticate(WithOtherPassword(users, k, q), users[k].email, q),
            authenticate(WithInactive(users, k, q), users[k].email, q))

\* An inactive account with the password "p" is refused with it, as is a
\* wrong password and an email no account has.
C12_Witness ==
    \E k \in DOMAIN users :
        /\ ~users[k].is_active
        /\ check_password(<<"p">>, users[k].password)
        /\ authenticate(users, users[k].email, <<"p">>) = 0
        /\ authenticate(users, users[k].email, <<"q">>) = 0
        /\ authenticate(users, <<"v", "@", "x">>, <<"p">>) = 0

(***************************************************************************)
(* Deactivation, password change, deletion                                 *)
(***************************************************************************)
\* Account k of the table, whose password is p, is refused: authenticate
\* with its email and p does not return it, and returns None unless another
\* account is let in with them.
Refused(table, k, p) ==
    /\ authenticate(table, table[k].email, p) # k
    /\ ~OtherMatch(table, k, table[k].email, p)
           => authenticate(table, table[k].email, p) = 0

\* The raw passwords that verify against account k's hash.
PasswordsOf(k) == {p \in RawPasswords : check_password(p, users[k].password)}

VerifiesOnly(table, pk, new) ==
    /\ check_password(new, table[pk].password)
    /\ \A old \in TriedPasswords \ {new} :
           ~check_password(old, table[pk].password)

\* C14: after set_password(new), save and reload, check_password(new) is
\* true and check_password(old) is false for every old other than new,
\* whatever the account's password was before.
C14_PasswordRotation ==
    \A pk \in DOMAIN users, new \in RawPasswords :
        VerifiesOnly(SetPasswordOutcome(pk, new), pk, new)

\* Account 1, created with the password "p" or none, has been given the
\* password "q": it verifies "q" and no longer "p".
C14_Witness ==
    /\ 1 \in DOMAIN users
    /\ check_password(<<"q">>, users[1].password)
    /\ ~check_password(<<"p">>, users[1].password)

(***************************************************************************)
(* Authentication with another spelling of the domain                      *)
(***************************************************************************)
\* e2 differs from e at most in the letter case of the part after the
\* last "@".
SameButDomainCase(e, e2) ==
    /\ Len(e) = Len(e2)
    /\ LastAt(e) > 0
    /\ \A i \in 1..Len(e) :
           IF i <= LastAt(e) THEN e2[i] = e[i]
           ELSE Lower(e2[i]) = Lower(e[i])

\* The spellings tried for e.
DomainCaseVariants(e) ==
    {e2 \in TriedEmails \cup AuthAssignedEmails : SameButDomainCase(e, e2)}

\* s is e2 with every letter lower-cased.
IsLowerCased(s, e2) ==
    /\ Len(s) = Len(e2)
    /\ \A i \in 1..Len(s) : s[i] = Lower(e2[i])

\* An account stored under exactly e2 is let in with the password p.
ExactMatch(table, e2, p) ==
    \E j \in DOMAIN table : table[j].email = e2 /\ PassesChecks(table, j, p)

Gone(table, k, e) ==
    /\ k \notin DOMAIN table
    /\ ByEmail(table, e) = {}

\* The outcome of a create_user call is a new account, under an id that
\* neither the deleted account k nor any stored account has.
CreatedAnew(out, table, k) ==
    /\ out.result.raised = ""
    /\ out.result.ret \notin DOMAIN table \cup {k}
    /\ DOMAIN out.users = DOMAIN table \cup {out.result.ret}

CanCreatePerm == nextId <= MaxPermAccounts

\* The account a successful manager call returned has every capability.
CreatedWithAll(out) ==
    out.result.raised = ""
        => \A c \in Capabilities :
               has_perm(out.users[out.result.ret], group_permissions, c)

\* The account a successful manager call returned has no capability.
CreatedWithNone(out) ==
    out.result.raised = ""
        => \A c \in Capabilities :
               ~has_perm(out.users[out.result.ret], group_permissions, c)

\* The capabilities granted to the user or to one of the user's groups.
Granted(user) ==
    user.user_permissions \cup UNION {group_permissions[g] : g \in user.groups}

\* C16: an account created by create_superuser has has_perm(c) for every
\* capability c; an account created by create_user has has_perm(c) for no
\* c, and, as long as it is not made a superuser, for no c that has not
\* been granted to it or to one of its groups.
C16_SuperuserAllRegularNone ==
    /\ CanCreatePerm =>
           \A e \in PermEmails :
               /\ CreatedWithAll(CreateSuperuserOutcome(e, None, <<>>))
               /\ CreatedWithNone(CreateUserOutcome(e, None, <<>>))
    /\ \A k \in DOMAIN users, c \in Capabilities :
           /\ ~users[k].is_superuser
           /\ has_perm(users[k], group_permissions, c)
           => c \in Granted(users[k])

\* The superuser just created has "x", a capability nobody granted, with
\* no permission and no group of its own.
C16_Witness ==
    /\ result.op = "create_superuser" /\ result.raised = ""
    /\ result.ret \in DOMAIN users
    /\ has_perm(users[result.ret], group_permissions, "x")
    /\ users[result.ret].user_permissions = {}
    /\ users[result.ret].groups = {}

\* C17 as stated: has_perm(c) is true for every capability c whenever
\* is_superuser is true, whatever the grants and the other flags, also
\* after the account has been deactivated.
C17_Original ==
    \A k \in DOMAIN users, c \in Capabilities :
        users[k].is_superuser => has_perm(users[k], group_permissions, c)

\* C17: has_perm(c) is true for every capability c whenever is_superuser
\* and is_active are both true, whatever the grants and is_staff; an
\* account whose is_active is false has no capability, superuser or not.
C17_ActiveSuperuser ==
    \A k \in DOMAIN users, c \in Capabilities :
        /\ users[k].is_superuser /\ users[k].is_active
               => has_perm(users[k], group_permissions, c)
        /\ ~users[k].is_active
               => ~has_perm(users[k], group_permissions, c)

\* The superuser that create_superuser returned has been deactivated and
\* has lost "c", which it also holds as a granted permission.
C17_Witness ==
    /\ result.op = "create_superuser" /\ result.raised = ""
    /\ result.ret \in DOMAIN users
    /\ users[result.ret].is_superuser
    /\ ~users[result.ret].is_active
    /\ "c" \in users[result.ret].user_permissions
    /\ ~has_perm(users[result.ret], group_permissions, "c")

\* C18: setting is_staff on an account that is not a superuser and holds
\* no grant leaves has_perm(c) false for every capability c and leaves
\* is_superuser false.
C18_StaffGrantsNothing ==
    \A k \in DOMAIN users :
        ~users[k].is_superuser /\ Granted(users[k]) = {}
            => LET saved == save(users, k,
                                 AssignFlag(users[k], "is_staff", TRUE))
               IN  /\ saved[k].is_staff
                   /\ ~saved[k].is_superuser
                   /\ \A c \in Capabilities :
                          ~has_perm(saved[k], group_permissions, c)

\* An active account created by create_user has been made staff and has
\* neither "c" nor "x".
C18_Witness ==
    /\ result.op = "create_user" /\ result.raised = ""
    /\ result.ret \in DOMAIN users
    /\ users[result.ret].is_staff /\ users[result.ret].is_active
    /\ ~users[result.ret].is_superuser
    /\ ~has_perm(users[result.ret], group_permissions, "c")
    /\ ~has_perm(users[result.ret], group_permissions, "x")

\* Account k is active and not a superuser.
ActiveRegular(k) == users[k].is_active /\ ~users[k].is_superuser

\* Of the capabilities of account k, the step changes has_perm(c) to true
\* and no other.
GainsOnly(k, c) ==
    /\ has_perm(users'[k], group_permissions', c)
    /\ \A d \in Capabilities \ {c} :
           has_perm(users'[k], group_permissions', d)
               <=> has_perm(users[k], group_permissions, d)

\* C19: for an active account that is not a superuser, has_perm(c) is true
\* exactly when c has been granted to it directly or through one of its
\* groups; granting c to it, or to one of its groups, makes has_perm(c)
\* true on the reloaded account and changes has_perm(d) for no other d.
C19_ExactlyGranted ==
    /\ [](\A k \in DOMAIN users, c \in Capabilities :
             ActiveRegular(k)
                 => (has_perm(users[k], group_permissions, c)
                        <=> c \in Granted(users[k])))
    /\ [][\A k \in DOMAIN users, c \in Permissions :
             ActiveRegular(k) /\ GrantPermission(k, c) => GainsOnly(k, c)]_vars
    /\ [][\A k \in DOMAIN users, c \in Permissions :
             /\ ActiveRegular(k)
             /\ \E g \in users[k].groups : GroupGrant(g, c)
             => GainsOnly(k, c)]_vars

\* An active regular account holds "c" itself and "d" through its group,
\* and has "c" and "d" but not "x".
C19_Witness ==
    \E k \in DOMAIN users :
        /\ ActiveRegular(k)
        /\ users[k].user_permissions = {"c"}
        /\ \E g \in users[k].groups : group_permissions[g] = {"d"}
        /\ has_perm(users[k], group_permissions, "c")
        /\ has_perm(users[k], group_permissions, "d")
        /\ ~has_perm(users[k], group_permissions, "x")

(***************************************************************************)
(* last_login and date_joined                                              *)
(***************************************************************************)
\* The account a successful manager call returned has never logged in.
CreatedNeverLoggedIn(out) ==
    out.result.raised = "" => out.users[out.result.ret].last_login = Never

\* A login or token request that succeeded has set last_login of the user
\* it returned; one that failed has left last_login of every account as it
\* was.
LastLoginFollows(out) ==
    IF out.result.raised = "" /\ out.result.ret # 0
    THEN out.users[out.result.ret].last_login # Never
    ELSE /\ DOMAIN out.users = DOMAIN users
         /\ \A k \in DOMAIN users :
                out.users[k].last_login = users[k].last_login

\* C21: a newly created account has last_login None; a successful login,
\* through the session login or through token issuance with
\* UPDATE_LAST_LOGIN, sets last_login of the account logged in to a
\* non-null value; a failed attempt leaves last_login of every account
\* unchanged.
C21_LastLogin ==
    /\ CanCreate => \A e \in TimeEmails :
           CreatedNeverLoggedIn(CreateUserOutcome(e, <<"p">>, <<>>))
    /\ \A e \in TimeEmails, p \in TimePasswords :
           /\ LastLoginFollows(login(users, now, e, p))
           /\ LastLoginFollows(obtain_token(users, now, e, p))

\* A token request has just been refused; account 1 logged in at the
\* second reading of the clock, account 2 never did.
C21_Witness ==
    /\ DOMAIN users = {1, 2}
    /\ result.op = "token_obtain_pair" /\ result.raised # ""
    /\ users[1].last_login = 2
    /\ users[2].last_login = Never

(***************************************************************************)
(* Concurrent creation                                                     *)
(***************************************************************************)
\* The normalized forms of the emails the concurrent calls are given.
ConcForms == {NormalForm(e) : e \in ConcEmails \ {<<>>}}

\* The calls made for an email whose normalized form is n.
CallsFor(n) ==
    {c \in CallIds : /\ calls[c].pc # "idle"
                     /\ ~Falsy(calls[c].email)
                     /\ NormalForm(calls[c].email) = n}

\* The call has left create_user.
Left(c) == calls[c].pc \in {"returned", "raised"}

\* The calls of cs that returned an account.
Winners(cs) == {c \in cs : calls[c].pc = "returned"}

\* Of the calls cs for the form n, all of which have left create_user,
\* exactly one returned an account, which is stored under n, and every
\* other one raised IntegrityError.
OneWinner(cs, n) ==
    /\ Cardinality(Winners(cs)) = 1
    /\ \A c \in Winners(cs) :
           calls[c].ret \in DOMAIN users /\ users[calls[c].ret].email = n
    /\ \A c \in cs \ Winners(cs) : calls[c].raised = IntegrityError.exc

\* C22: of the create_user calls that run concurrently for emails with the
\* same normalized form, interleaved statement by statement, exactly one
\* persists an account and every other one fails with the uniqueness
\* violation; at no point are two accounts stored under that email; and a
\* call that failed is not made again by the manager.
C22_OneWinner ==
    /\ [](\A n \in ConcForms :
             /\ Cardinality(ByEmail(users, n)) <= 1
             /\ Cardinality(Winners(CallsFor(n))) <= 1
             /\ CallsFor(n) # {} /\ (\A c \in CallsFor(n) : Left(c))
                    => OneWinner(CallsFor(n), n))
    /\ [][\A c \in CallIds : Left(c) => calls'[c] = calls[c]]_vars

\* Two calls for emails that normalize to "U@x" have both left
\* create_user: the second returned account 1, the first raised
\* IntegrityError.
C22_Witness ==
    /\ calls[1].pc = "raised" /\ calls[1].raised = IntegrityError.exc
    /\ calls[2].pc = "returned" /\ calls[2].ret = 1
    /\ DOMAIN users = {1}
    /\ users[1].email = <<"U", "@", "x">>

\* The account a successful manager call returned joined at the clock's
\* present reading.
CreatedJoinedNow(out) ==
    out.result.raised = "" => out.users[out.result.ret].date_joined = now

\* C23: date_joined of an account is set at creation to the current time
\* and no later operation on the account (profile update, activation or
\* deactivation, staff flag change, password change, login) changes it.
C23_JoinedOnce ==
    /\ [](CanCreate => \A e \in TimeEmails :
             CreatedJoinedNow(CreateUserOutcome(e, <<"p">>, <<>>)))
    /\ [][\A k \in DOMAIN users :
             /\ k \in DOMAIN users'
             /\ users'[k].date_joined = users[k].date_joined]_vars

\* Account 1 joined at the first reading of the clock; by the second it
\* has been renamed, made staff, given another password and has logged in.
C23_Witness ==
    /\ 1 \in DOMAIN users
    /\ users[1].date_joined = 1
    /\ now = 2
    /\ users[1].last_login = 2
    /\ users[1].first_name = <<"A">>
    /\ users[1].is_staff
    /\ check_password(<<"q">>, users[1].password)
ProbeSucceeds(c, x) == c.exc = "" /\ x.exc = ""

Healthy(r) ==
    /\ r.status = 200
    /\ r.body = [status |-> "healthy", database |-> "connected"]

Unhealthy(r, e) ==
    /\ r.status = 503
    /\ r.body = [status |-> "unhealthy", error |-> e.msg]

\* C24: the health check answers 200 with {"status": "healthy",
\* "database": "connected"} exactly when the probe succeeds and 503 with
\* status "unhealthy" and the error whenever the probe raises; it raises
\* nothing to its caller and leaves the stored accounts as they are.
C24_HealthCheck ==
    [][\A c, x \in ProbeOutcomes :
          HealthCheck(c, x) =>
              /\ response'.raised = ""
              /\ ProbeSucceeds(c, x) <=> Healthy(response')
              /\ ~ProbeSucceeds(c, x) =>
                     Unhealthy(response', ProbeError(c, x))
              /\ users' = users]_vars

\* An account is stored and the last probe could not connect: the answer
\* is 503 with the driver's message.
C24_Witness ==
    /\ users # <<>>
    /\ response.status = 503
    /\ response.body.error = "connection refused"

SettingsModules == {"production", "test", "development"}

\* C25: the settings module selected is a function of DJANGO_ENV alone:
\* production for "production", test for "test", development for every
\* other value and for an unset variable; it is one of the three.
C25_Selection ==
    settings # NotLoaded =>
        /\ settings.module \in SettingsModules
        /\ settings.module = "production" <=>
               environ["DJANGO_ENV"] = EnvSet("production")
        /\ settings.module = "test" <=> environ["DJANGO_ENV"] = EnvSet("test")

\* DJANGO_ENV is "Production" and the development settings are loaded.
C25_Witness ==
    /\ environ["DJANGO_ENV"] = EnvSet("Production")
    /\ environ["SECRET_KEY"].set
    /\ settings.module = "development"

LoadedFor(mode) ==
    /\ settings # NotLoaded
    /\ settings.raised = ""
    /\ environ["DJANGO_ENV"] = EnvSet(mode)

\* C27: under DJANGO_ENV "development" the database is SQLite in the file
\* BASE_DIR/db.sqlite3, under "test" SQLite in memory, under "production"
\* PostgreSQL.
C27_Databases ==
    /\ LoadedFor("development") =>
           /\ settings.ENGINE = "django.db.backends.sqlite3"
           /\ settings.NAME = SqliteFile
    /\ LoadedFor("test") =>
           /\ settings.ENGINE = "django.db.backends.sqlite3"
           /\ settings.NAME = ":memory:"
    /\ LoadedFor("production") =>
           settings.ENGINE = "django.db.backends.postgresql"

\* C29: loading the production settings raises when SECRET_KEY is not set
\* in the environment, and settings that do load hold the key of the
\* environment, never the fallback of base.py.
C29_SecretKey ==
    (settings # NotLoaded /\ settings.module = "production") =>
        /\ ~environ["SECRET_KEY"].set => settings.raised # ""
        /\ settings.raised = "" =>
               /\ environ["SECRET_KEY"].set
               /\ settings.SECRET_KEY = environ["SECRET_KEY"].value
               /\ settings.SECRET_KEY # FallbackKey

\* Production is selected, SECRET_KEY is not set, and the import has
\* raised KeyError.
C29_Witness ==
    /\ environ["DJANGO_ENV"] = EnvSet("production")
    /\ ~environ["SECRET_KEY"].set
    /\ settings.module = "production"
    /\ settings.raised = "KeyError"

\* What the claim requires of a creation form submission.
EmailAccepted(table, email) ==
    /\ email # None /\ email # <<>>
    /\ EmailValidator(email)
    /\ \A k \in DOMAIN table : table[k].email # email

PasswordAccepted(password1, password2) ==
    password1 = password2 /\ password2 \notin WeakPasswords

FieldsOf(errors) == { err[1] : err \in errors }

CreationOutcomeRight(table, nid, data, out) ==
    LET emailOk    == EmailAccepted(table, data.email)
        passwordOk == PasswordAccepted(data.password1, data.password2)
    IN  /\ out.users # table => (emailOk /\ passwordOk)
        /\ (emailOk /\ passwordOk) =>
               /\ out.form.errors = {}
               /\ DOMAIN out.users = DOMAIN table \cup {nid}
               /\ out.users[nid].email = data.email
               /\ check_password(data.password1, out.users[nid].password)
               /\ \A k \in DOMAIN table : out.users[k] = table[k]
        /\ ~(emailOk /\ passwordOk) =>
               /\ out.users = table
               /\ out.nextId = nid
               /\ ("email" \in FieldsOf(out.form.errors)) <=> ~emailOk
               /\ ("password2" \in FieldsOf(out.form.errors)) <=> ~passwordOk
               /\ FieldsOf(out.form.errors) \subseteq {"email", "password2"}

\* C28: a submission of the creation form creates an account only when
\* the email is present, well-formed and unused, the two password entries
\* are equal and the validators accept the password; a rejected
\* submission reports the error on email or on password2, whichever is at
\* fault, creates no account and leaves the table as it was.
C28_CreationForm ==
    CanCreate =>
        \A data \in CreationData :
            CreationOutcomeRight(users, nextId, data,
                                 creation_form(users, nextId, data))

\* One account is stored, and the last submission of the creation form,
\* with that account's email and two different passwords, was rejected on
\* both fields.
C28_Witness ==
    /\ DOMAIN users = {1}
    /\ form.op = "creation"
    /\ form.errors = { <<"email", "unique">>,
                       <<"password2", "password_mismatch">> }

\* The fields an update of names and flags may not touch.
KeepsRest(before, after) ==
    /\ after.password = before.password
    /\ after.email = before.email
    /\ after.is_superuser = before.is_superuser
    /\ after.date_joined = before.date_joined
    /\ after.last_login = before.last_login
    /\ after.user_permissions = before.user_permissions
    /\ after.groups = before.groups

\* Account pk is updated and nothing else: its other fields and every
\* other account are as before, and its password still verifies.
UpdatesOnly(table, pk, after) ==
    /\ DOMAIN after = DOMAIN table
    /\ KeepsRest(table[pk], after[pk])
    /\ \A raw \in {<<"S">>, <<"T">>} :
           check_password(raw, after[pk].password)
               <=> check_password(raw, table[pk].password)
    /\ \A k \in DOMAIN table : k # pk => after[k] = table[k]

\* The change form submitted for pk with the email it has.
ChangeDataFor(pk) == { data \in ChangeData : data.email = users[pk].email }

SubmittedFieldsSet(row, data) ==
    /\ row.first_name = data.first_name
    /\ row.last_name = data.last_name
    /\ row.is_active = data.is_active
    /\ row.is_staff = data.is_staff

\* C30: an update of first name, last name, is_active or is_staff, by
\* save() or by the change form submitted without a password, changes the
\* submitted fields only: the password of the account, its email,
\* is_superuser and date_joined, and every other account, stay as they
\* were.
C30_UpdateFrame ==
    \A pk \in DOMAIN users :
        /\ \A flag \in {"is_active", "is_staff"}, v \in BOOLEAN :
               LET after == save(users, pk, AssignFlag(users[pk], flag, v))
               IN  /\ UpdatesOnly(users, pk, after)
                   /\ after[pk].first_name = users[pk].first_name
                   /\ after[pk].last_name = users[pk].last_name
                   /\ after[pk][flag] = v
        /\ LET after == save(users, pk,
                             [users[pk] EXCEPT !.first_name = <<"A">>,
                                               !.last_name = <<"B">>])
           IN  /\ UpdatesOnly(users, pk, after)
               /\ after[pk].is_active = users[pk].is_active
               /\ after[pk].is_staff = users[pk].is_staff
        /\ \A data \in ChangeDataFor(pk) :
               LET out == change_form(users, pk, data)
               IN  /\ out.form.errors = {}
                   /\ UpdatesOnly(users, pk, out.users)
                   /\ SubmittedFieldsSet(out.users[pk], data)

\* Two accounts that joined at the first reading of the clock; at the
\* second the superuser, account 1, has been renamed, deactivated and made
\* staff through the change form, and still has its password and email.
C30_Witness ==
    /\ DOMAIN users = {1, 2}
    /\ now = 2
    /\ form = [op |-> "change", errors |-> {}, ret |-> 1]
    /\ users[1].is_superuser /\ users[1].date_joined = 1
    /\ users[1].first_name = <<"A">> /\ users[1].last_name = <<"B">>
    /\ ~users[1].is_active /\ users[1].is_staff
    /\ check_password(<<"S">>, users[1].password)
    /\ users[1].email = <<"v", "@", "x">>
    /\ users[2].first_name = <<"A">> /\ users[2].last_name = None

====
